---------------------------- MODULE Spec2Model ----------------------------
(***************************************************************************)
(* Crime Data Analysis Dashboard (src/app.py).                             *)
(*                                                                         *)
(* The program is a Streamlit script: every page selection re-runs the     *)
(* whole script top to bottom.  One run loads the table through the        *)
(* process-wide st.cache_data memo, reads the sidebar radio and executes   *)
(* one branch of the if/elif page dispatch.  The Data Analysis branch      *)
(* computes five pandas group-by views of the table.                       *)
(*                                                                         *)
(* Values.  A table is a sequence of rows; a row is a record with the six  *)
(* columns of the dataset.  Names (stations, categories) are integer       *)
(* codes whose order is the alphabetical order of the names; coordinates   *)
(* are integer grid steps; NA is the missing value (NaN).  A Series or a   *)
(* one-value DataFrame is a sequence of [key, val] entries, the key being  *)
(* the tuple of the grouping columns' values.                              *)
(***************************************************************************)
EXTENDS Integers, Sequences, FiniteSets

\* ------------------------------------------------------------------ bounds
MaxRows       == 22   \* rows of a generated table
NumStations   == 17   \* distinct station names a generated table cycles through
NumCategories == 10   \* distinct category names a generated table cycles through
NumLocations  == 21   \* distinct coordinate pairs a generated table cycles through
GridWidth     == 7    \* distinct location_x values of the generated coordinates
MaxReads      == 3    \* cap on the counted calls of pd.read_csv

\* ------------------------------------------------------- program constants
TopStations   == 15   \* .head(15)
TopCategories == 8    \* .head(8) and .iloc[8:]
TopHotspots   == 20   \* .head(20)

NA     == 0           \* a missing cell (NaN) of the table read by pd.read_csv
Others == 9           \* the code of the category name "Others"

Pages == <<"Home", "Dataset Overview", "Data Analysis", "Screenshots", "About Research">>

\* ------------------------------------------------------------ pandas model
Min(a, b) == IF a < b THEN a ELSE b

\* Order of group keys (tuples of equal length): lexicographic.
RECURSIVE LexLess(_, _)
LexLess(a, b) ==
    IF Len(a) = 0 \/ Len(b) = 0 THEN FALSE
    ELSE \/ Head(a) < Head(b)
         \/ Head(a) = Head(b) /\ LexLess(Tail(a), Tail(b))

KeyOf(row, cols) == [i \in 1..Len(cols) |-> row[cols[i]]]

IsNA(key) == \E i \in 1..Len(key) : key[i] = NA

Entry(k, v) == [key |-> k, val |-> v]

\* The binning with the sum lost: the last row of a group replaces its bin.
RECURSIVE AddToOverwrite(_, _, _)
AddToOverwrite(series, key, n) ==
    IF Len(series) = 0 THEN <<Entry(key, n)>>
    ELSE IF Head(series).key = key
         THEN <<Entry(key, n)>> \o Tail(series)
    ELSE IF LexLess(key, Head(series).key)
         THEN <<Entry(key, n)>> \o series
    ELSE <<Head(series)>> \o AddToOverwrite(Tail(series), key, n)

\* Add n to the bin of key in a series kept in ascending key order.
RECURSIVE AddTo(_, _, _)
AddTo(series, key, n) ==
    IF Len(series) = 0 THEN <<Entry(key, n)>>
    ELSE IF Head(series).key = key
         THEN <<Entry(key, Head(series).val + n)>> \o Tail(series)
    ELSE IF LexLess(key, Head(series).key)
         THEN <<Entry(key, n)>> \o series
    ELSE <<Head(series)>> \o AddTo(Tail(series), key, n)

\* data.groupby(cols)["crime_count"].sum() over the first i rows: rows are
\* binned in table order, a row with a missing key value is dropped
\* (dropna=True is the default), the result is in ascending key order
\* (sort=True is the default).
RECURSIVE GroupBySumUpTo(_, _, _)
GroupBySumUpTo(rows, cols, i) ==
    IF i = 0 THEN <<>>
    ELSE LET k == KeyOf(rows[i], cols)
         IN  IF IsNA(k) THEN GroupBySumUpTo(rows, cols, i - 1)
             ELSE AddTo(GroupBySumUpTo(rows, cols, i - 1), k, rows[i].crime_count)

GroupBySum(rows, cols) == GroupBySumUpTo(rows, cols, Len(rows))

\* Insert e into a series in descending val order.  stable: after the entries
\* of equal val; otherwise before them.
RECURSIVE InsertDesc(_, _, _)
InsertDesc(sorted, e, stable) ==
    IF Len(sorted) = 0 THEN <<e>>
    ELSE IF Head(sorted).val > e.val \/ (stable /\ Head(sorted).val = e.val)
         THEN <<Head(sorted)>> \o InsertDesc(Tail(sorted), e, stable)
    ELSE <<e>> \o sorted

RECURSIVE SortUpTo(_, _, _)
SortUpTo(series, i, stable) ==
    IF i = 0 THEN <<>>
    ELSE InsertDesc(SortUpTo(series, i - 1, stable), series[i], stable)

\* The sort without ascending=False.
SortValuesAsc(series, stable) ==
    LET d == SortUpTo(series, Len(series), stable)
    IN  [i \in 1..Len(d) |-> d[Len(d) + 1 - i]]

\* .sort_values(ascending=False): the default kind is quicksort, which is
\* not stable, so the order of entries of equal val is the build's: the model
\* keeps the two extreme outcomes (ties in key order, ties in reverse order).
SortValuesDesc(series, stable) == SortUpTo(series, Len(series), stable)

\* .head(n)
HeadN(series, n) == SubSeq(series, 1, Min(n, Len(series)))

\* .iloc[n:]
ILocFrom(series, n) == SubSeq(series, n + 1, Len(series))

\* .sum() of a Series
RECURSIVE SumVals(_)
SumVals(series) ==
    IF Len(series) = 0 THEN 0 ELSE Head(series).val + SumVals(Tail(series))

Keys(series) == {series[i].key : i \in 1..Len(series)}

IndexOf(series, key) == CHOOSE i \in 1..Len(series) : series[i].key = key


\* top_categories["Others"] = others, where top_categories is the head(8)
\* slice of category_counts.  A new label enlarges the slice into a Series
\* of its own.  An existing label is overwritten in place: with pandas
\* copy-on-write (cow, the default from pandas 3) the slice is copied first,
\* without it the slice shares its values with category_counts and the
\* write lands in both.
SetItem(view, base, key, value, cow) ==
    IF key \in Keys(view)
    THEN LET i == IndexOf(view, key)
         IN  [view |-> [view EXCEPT ![i].val = value],
              base |-> IF cow THEN base ELSE [base EXCEPT ![i].val = value]]
    ELSE [view |-> Append(view, Entry(key, value)), base |-> base]

\* ------------------------------------------------------------------ tables
Row(s, c, x, y, yr, n) ==
    [station |-> s, category |-> c, location_x |-> x, location_y |-> y,
     year |-> yr, crime_count |-> n]

\* The example of the specification: station A, category Theft, (1.0, 2.0),
\* 5 crimes in 2020 and 3 in 2021.
ExampleTable == <<Row(1, 1, 1, 2, 2020, 5), Row(1, 1, 1, 2, 2021, 3)>>

Patterns == {"const", "asc", "desc", "head"}

Variants == {"plain", "reversed", "unnamed", "na_station", "na_category",
             "na_x", "na_y", "na_year"}

\* crime_count of the i-th of n generated rows: all equal; rising; falling;
\* non-zero only in the first TopCategories rows.
CountOf(pat, i, n) ==
    CASE pat = "const" -> 1
      [] pat = "asc"   -> i
      [] pat = "desc"  -> n + 1 - i
      [] pat = "head"  -> IF i <= TopCategories THEN TopCategories + 1 - i ELSE 0

\* The i-th of n generated rows.  Stations, categories and coordinates cycle
\* through NumStations, NumCategories and NumLocations values, years through
\* three.  Variant "unnamed" skips the name "Others"; a variant "na_<column>"
\* leaves that cell of the last row missing.
GenRow(i, n, pat, var) ==
    LET c  == ((i - 1) % NumCategories) + 1
        li == (i - 1) % NumLocations
        na(col) == var = col /\ i = n
    IN  Row(IF na("na_station") THEN NA ELSE ((i - 1) % NumStations) + 1,
            IF na("na_category") THEN NA
            ELSE IF var = "unnamed" /\ c >= Others THEN c + 1 ELSE c,
            IF na("na_x") THEN NA ELSE (li % GridWidth) + 1,
            IF na("na_y") THEN NA ELSE (li \div GridWidth) + 1,
            IF na("na_year") THEN NA ELSE 2020 + (i % 3),
            CountOf(pat, i, n))

Gen(n, pat, var) ==
    [j \in 1..n |-> GenRow(IF var = "reversed" THEN n + 1 - j ELSE j, n, pat, var)]

\* Row counts on both sides of each truncation point.
RowCounts ==
    {0, 1, 2, TopCategories, TopCategories + 1, NumCategories + 1,
     TopStations + 1, NumStations + 1, TopHotspots, MaxRows}

\* Tables without a missing cell: every count pattern in table order, in
\* reverse order and without a category named "Others"; the example.
CompleteTables ==
    {Gen(n, pat, var) : n \in RowCounts, pat \in Patterns,
                        var \in {"plain", "reversed", "unnamed"}}
        \cup {ExampleTable}

\* The tables of the aggregation runs: those, and tables with a missing cell
\* in each key column.
Tables ==
    CompleteTables \cup {Gen(n, "asc", var) : n \in RowCounts, var \in Variants}

\* The files of the lifecycle runs: header only, the example, nine rows.
LifecycleTables == {<<>>, ExampleTable, Gen(TopCategories + 1, "desc", "plain")}

\* ------------------------------------------------------------------- state
VARIABLES
    file,     \* data/crime_data.csv on disk: [exists, rows]
    shots,    \* the screenshots folder on disk: [exists, images]
    cow,      \* build: pandas copy-on-write
    stable,   \* build: order of equal values after sort_values
    cache,    \* the st.cache_data memo of load_data: [hit, value]
    reads,    \* calls of pd.read_csv so far
    data,     \* the script's global data after the last run: [ok, rows]
    page,     \* the sidebar radio's selection
    out,      \* the elements the last run rendered
    err,      \* the last run ended in an uncaught exception
    views     \* the Data Analysis branch's variables after the last run

vars == <<file, shots, cow, stable, cache, reads, data, page, out, err, views>>

None == [ok |-> FALSE, rows |-> <<>>]

Table(rows) == [ok |-> TRUE, rows |-> rows]

NoFile == [exists |-> FALSE, rows |-> <<>>]

NoCache == [hit |-> FALSE, value |-> <<>>]

ViewNames == {"station_counts", "category_counts", "top_categories",
              "yearly_trend", "station_locations", "hotspot_data"}

NoViews ==
    [computed |-> {}, station_counts |-> <<>>, category_counts |-> <<>>,
     top_categories |-> <<>>, others |-> 0, yearly_trend |-> <<>>,
     station_locations |-> <<>>, hotspot_data |-> <<>>]

\* ------------------------------------------------------------------ loader
\* load_data without its memo: the body runs on every call.
load_data_uncached(f, c) ==
    IF f.exists
    THEN [raised |-> FALSE, value |-> f.rows,
          cache |-> [hit |-> TRUE, value |-> f.rows], read |-> TRUE]
    ELSE [raised |-> TRUE, value |-> <<>>, cache |-> c, read |-> TRUE]

\* @st.cache_data def load_data(): a stored result is returned without
\* running the body; otherwise the body reads the file, and only a result it
\* returns is stored (an exception is raised to the caller and not cached).
load_data(f, c) ==
    IF c.hit
    THEN [raised |-> FALSE, value |-> c.value, cache |-> c, read |-> FALSE]
    ELSE IF f.exists
    THEN [raised |-> FALSE, value |-> f.rows,
          cache |-> [hit |-> TRUE, value |-> f.rows], read |-> TRUE]
    ELSE [raised |-> TRUE, value |-> <<>>, cache |-> c, read |-> TRUE]

\* try: data = load_data()  except: data = None
TryLoad(f, c) ==
    LET r == load_data(f, c)
    IN  [data  |-> IF r.raised THEN None ELSE Table(r.value),
         cache |-> r.cache,
         read  |-> r.read]

\* ------------------------------------------------------------------ panels
El(p, kind, body) == [panel |-> p, kind |-> kind, body |-> body]

Panel(elements) == [out |-> elements, err |-> FALSE, views |-> NoViews]

\* st.sidebar.title, st.sidebar.radio
Sidebar ==
    <<El("sidebar", "title", "Navigation"), El("sidebar", "radio", "Go to")>>

\* The footer, reached when the branch raised nothing.
Footer ==
    <<El("footer", "markdown", "---"),
      El("footer", "markdown", "2026 | Crime Data Analysis Dashboard")>>

\* The Home branch; assets/cover.jpeg is taken to be present.
HomePanel ==
    Panel(<<El(Pages[1], "title", "Crime Data Analysis Dashboard"),
            El(Pages[1], "subheader", "Exploratory Analysis of Crime Patterns in Mpumalanga"),
            El(Pages[1], "markdown", "Welcome"),
            El(Pages[1], "image", "assets/cover.jpeg")>>)

OverviewPanel(d) ==
    Panel(<<El(Pages[2], "title", "Dataset Overview")>> \o
          (IF d.ok
           THEN <<El(Pages[2], "write", "Sample Records"),
                  El(Pages[2], "dataframe", "data.head(50)"),
                  El(Pages[2], "write", "Dataset Shape"),
                  El(Pages[2], "write", "Rows"),
                  El(Pages[2], "write", "Columns"),
                  El(Pages[2], "write", "Column Names"),
                  El(Pages[2], "write", "list(data.columns)"),
                  El(Pages[2], "write", "Missing Values"),
                  El(Pages[2], "dataframe", "data.isnull().sum()"),
                  El(Pages[2], "write", "Basic Statistics"),
                  El(Pages[2], "dataframe", "data.describe()")>>
           ELSE <<El(Pages[2], "warning",
                     "Dataset not found. Please add crime_data.csv in the data folder.")>>))

\* The "Others" step without its test of others.
AddOthersAlways(top, cc, oth, cw) == SetItem(top, cc, <<Others>>, oth, cw)

\* if others > 0: top_categories["Others"] = others

AddOthers(top, cc, oth, cw) ==
    IF oth > 0 THEN SetItem(top, cc, <<Others>>, oth, cw)
    ELSE [view |-> top, base |-> cc]

\* The Data Analysis branch on a loaded table, statement by statement.
\* station_counts.plot(kind="bar") raises on a Series without entries (pandas
\* has no numeric data to plot, or no first bar to place): the run ends there.
AnalysisPanel(rows, cw, st) ==
    LET P   == Pages[3]
        sc  == HeadN(SortValuesDesc(GroupBySum(rows, <<"station">>), st), TopStations)
        cc  == SortValuesDesc(GroupBySum(rows, <<"category">>), st)
        top == HeadN(cc, TopCategories)
        oth == SumVals(ILocFrom(cc, TopCategories))
        set == AddOthers(top, cc, oth, cw)
        yt  == GroupBySum(rows, <<"year">>)
        sl  == GroupBySum(rows, <<"station", "location_x", "location_y">>)
        hd  == HeadN(SortValuesDesc(GroupBySum(rows, <<"location_x", "location_y">>), st),
                     TopHotspots)
        start == <<El(P, "title", "Data Analysis & Trends"),
                   El(P, "subheader", "Crime by Police Station")>>
    IN  IF Len(sc) = 0
        THEN [out |-> start, err |-> TRUE,
              views |-> [NoViews EXCEPT !.computed = {"station_counts"}]]
        ELSE [out |-> start \o
                   <<El(P, "pyplot", "station_counts"),
                     El(P, "subheader", "Crime by Category (Clear View)"),
                     El(P, "pyplot", "top_categories"),
                     El(P, "subheader", "Crime Trend Over Years"),
                     El(P, "pyplot", "yearly_trend"),
                     El(P, "subheader", "All Police Stations Map"),
                     El(P, "dataframe", "station_locations"),
                     El(P, "subheader", "Police Stations Map"),
                     El(P, "map", "station_locations"),
                     El(P, "subheader", "Top Crime Hotspots"),
                     El(P, "dataframe", "hotspot_data"),
                     El(P, "subheader", "Hotspot Map"),
                     El(P, "map", "hotspot_data")>>,
              err |-> FALSE,
              views |-> [computed |-> ViewNames, station_counts |-> sc,
                         category_counts |-> set.base, top_categories |-> set.view,
                         others |-> oth, yearly_trend |-> yt,
                         station_locations |-> sl, hotspot_data |-> hd]]

\* The branch without its test of data: the aggregations run on None.
AnalysisBranchUnguarded(d, cw, st) == AnalysisPanel(d.rows, cw, st)

\* if data is not None: ... else: st.warning(...)
AnalysisBranch(d, cw, st) ==
    IF d.ok THEN AnalysisPanel(d.rows, cw, st)
    ELSE Panel(<<El(Pages[3], "title", "Data Analysis & Trends"),
                 El(Pages[3], "warning", "No data available for analysis.")>>)

ScreenshotsPanel(sh) ==
    Panel(<<El(Pages[4], "title", "Research Screenshots"),
            El(Pages[4], "markdown", "This section presents screenshots")>> \o
          (IF sh.exists
           THEN IF Len(sh.images) > 0
                THEN [i \in 1..Len(sh.images) |-> El(Pages[4], "image", sh.images[i])]
                ELSE <<El(Pages[4], "info", "No screenshots found in the folder.")>>
           ELSE <<El(Pages[4], "warning",
                     "Please create a 'screenshots' folder and add your images.")>>))

AboutPanel ==
    Panel(<<El(Pages[5], "title", "About This Research"),
            El(Pages[5], "markdown", "Title")>>)

\* The dispatch with its last branch outside the chain: the About panel
\* follows whatever was selected.
DispatchFallThrough(p, d, sh, cw, st) ==
    LET first == IF p = Pages[1] THEN HomePanel
                 ELSE IF p = Pages[2] THEN OverviewPanel(d)
                 ELSE IF p = Pages[3] THEN AnalysisBranch(d, cw, st)
                 ELSE IF p = Pages[4] THEN ScreenshotsPanel(sh)
                 ELSE Panel(<<>>)
    IN  [first EXCEPT !.out = IF first.err THEN @ ELSE @ \o AboutPanel.out]

\* if page == "Home": ... elif ... : the first branch whose test holds.
Dispatch(p, d, sh, cw, st) ==
    IF p = Pages[1] THEN HomePanel
    ELSE IF p = Pages[2] THEN OverviewPanel(d)
    ELSE IF p = Pages[3] THEN AnalysisBranch(d, cw, st)
    ELSE IF p = Pages[4] THEN ScreenshotsPanel(sh)
    ELSE IF p = Pages[5] THEN AboutPanel
    ELSE Panel(<<>>)

\* ----------------------------------------------------------------- actions
NoFolder == [exists |-> FALSE, images |-> <<>>]

Folders == {NoFolder, [exists |-> TRUE, images |-> <<>>],
            [exists |-> TRUE, images |-> <<"roc.png", "confusion.png">>]}

InitProcess ==
    /\ cow \in BOOLEAN
    /\ stable \in BOOLEAN
    /\ cache = NoCache
    /\ reads = 0
    /\ data = None
    /\ page = Pages[1]
    /\ out = <<>>
    /\ err = FALSE
    /\ views = NoViews

Init ==
    /\ file \in {NoFile} \cup {[exists |-> TRUE, rows |-> t] : t \in LifecycleTables}
    /\ shots \in Folders
    /\ InitProcess

InitAgg ==
    /\ file \in {[exists |-> TRUE, rows |-> t] : t \in Tables}
    /\ shots = NoFolder
    /\ InitProcess

InitComplete ==
    /\ file \in {[exists |-> TRUE, rows |-> t] : t \in CompleteTables}
    /\ shots = NoFolder
    /\ InitProcess

\* One run of the script with the radio on p.  The first run of a session
\* has the radio on its first option.
Rerun(p) ==
    /\ (Len(out) = 0) => (p = Pages[1])
    /\ (~cache.hit) => (reads < MaxReads)
    /\ LET l    == TryLoad(file, cache)
           body == Dispatch(p, l.data, shots, cow, stable)
       IN  /\ cache' = l.cache
           /\ reads' = IF l.read THEN reads + 1 ELSE reads
           /\ data' = l.data
           /\ page' = p
           /\ out' = Sidebar \o body.out \o (IF body.err THEN <<>> ELSE Footer)
           /\ err' = body.err
           /\ views' = body.views
    /\ UNCHANGED <<file, shots, cow, stable>>

\* The environment writes the dataset file.
FileWrite(t) ==
    /\ file # [exists |-> TRUE, rows |-> t]
    /\ file' = [exists |-> TRUE, rows |-> t]
    /\ UNCHANGED <<shots, cow, stable, cache, reads, data, page, out, err, views>>

\* The environment removes the dataset file.
FileRemove ==
    /\ file.exists
    /\ file' = NoFile
    /\ UNCHANGED <<shots, cow, stable, cache, reads, data, page, out, err, views>>

Next ==
    \/ \E i \in 1..Len(Pages) : Rerun(Pages[i])
    \/ \E t \in LifecycleTables : FileWrite(t)
    \/ FileRemove

NextAgg == \E i \in 1..Len(Pages) : Rerun(Pages[i])

\* The lifecycle: a few files, the environment writing and removing them.
Spec == Init /\ [][Next]_vars

\* The aggregations: the file fixed, one of Tables.
SpecAgg == InitAgg /\ [][NextAgg]_vars

\* The aggregations on tables without a missing cell.
SpecComplete == InitComplete /\ [][NextAgg]_vars

\* ------------------------------------------------- reference definitions
\* Sums taken over sets of row numbers, so independent of the order of the
\* rows and of the way the program bins and sorts.
RECURSIVE SumOver(_, _)
SumOver(rows, I) ==
    IF I = {} THEN 0
    ELSE LET i == CHOOSE j \in I : TRUE
         IN  rows[i].crime_count + SumOver(rows, I \ {i})

\* The grand total of crime_count over all rows.
Total(rows) == SumOver(rows, 1..Len(rows))

\* The summed crime_count of the rows whose grouping columns hold key.
RefSum(rows, cols, key) ==
    SumOver(rows, {i \in 1..Len(rows) : KeyOf(rows[i], cols) = key})

\* The distinct (present) values of the grouping columns.
Distinct(rows, cols) ==
    {k \in {KeyOf(rows[i], cols) : i \in 1..Len(rows)} : ~IsNA(k)}

NonIncreasing(series) ==
    \A i \in 1..Len(series) - 1 : series[i].val >= series[i + 1].val

KeysAscending(series) ==
    \A i \in 1..Len(series) - 1 : LexLess(series[i].key, series[i + 1].key)

\* Each entry of the view is a group of the table with the group's sum.
SumsMatch(series, rows, cols) ==
    \A i \in 1..Len(series) :
        /\ series[i].key \in Distinct(rows, cols)
        /\ series[i].val = RefSum(rows, cols, series[i].key)

\* No group left out of the view has a larger sum than one kept in it.
KeepsLargest(series, rows, cols) ==
    \A k \in Distinct(rows, cols) \ Keys(series) :
        \A i \in 1..Len(series) : RefSum(rows, cols, k) <= series[i].val

\* The last run executed the Data Analysis branch to its end.
Analysed == views.computed = ViewNames

Groupings ==
    {<<"station">>, <<"category">>, <<"year">>,
     <<"station", "location_x", "location_y">>, <<"location_x", "location_y">>}

\* ------------------------------------------------------------------ claims

\* C1: when the table has more than 8 distinct categories, the values of the
\* displayed category view (the top 8 and the "Others" entry) add up to the
\* grand total of crime_count over all rows, whatever the categories are
\* named.
C1_CategoryTotals ==
    (Analysed /\ Cardinality(Distinct(data.rows, <<"category">>)) > TopCategories)
        => SumVals(views.top_categories) = Total(data.rows)

\* C4: the station totals view has at most 15 rows and the hotspot view at
\* most 20, each is non-increasing in its summed crime_count, and no group
\* left out of a view has a strictly greater sum than a group kept in it.
C4_Truncation ==
    Analysed =>
        /\ Len(views.station_counts) <= TopStations
        /\ Len(views.hotspot_data) <= TopHotspots
        /\ NonIncreasing(views.station_counts)
        /\ NonIncreasing(views.hotspot_data)
        /\ KeepsLargest(views.station_counts, data.rows, <<"station">>)
        /\ KeepsLargest(views.hotspot_data, data.rows, <<"location_x", "location_y">>)

\* C4 witness: both views are truncated (more than 15 stations, more than 20
\* coordinate pairs) and the station view holds a tie.
C4_Witness ==
    /\ Analysed
    /\ Cardinality(Distinct(data.rows, <<"station">>)) > TopStations
    /\ Cardinality(Distinct(data.rows, <<"location_x", "location_y">>)) > TopHotspots
    /\ Len(views.station_counts) = TopStations
    /\ Len(views.hotspot_data) = TopHotspots
    /\ \E i \in 1..TopStations - 1 :
           views.station_counts[i].val = views.station_counts[i + 1].val

\* C5: for a non-empty loaded table, each of the five full groupings (by
\* station, category, year, station and coordinates, coordinates) sums to the
\* grand total of crime_count, rows with a missing key value included.
C5_Conservation ==
    (data.ok /\ Len(data.rows) > 0) =>
        \A cols \in Groupings :
            SumVals(GroupBySum(data.rows, cols)) = Total(data.rows)

\* C9: the category view has at most 9 entries; an entry is added to the top
\* 8 only when there are more than 8 distinct categories and the categories
\* ranked below the top 8 sum to a non-zero count, and the added entry is
\* "Others" with exactly that sum; with 8 or fewer distinct categories the
\* view is exactly the per-category totals.
C9_OthersBucket ==
    Analysed =>
        LET view == views.top_categories
            cats == Distinct(data.rows, <<"category">>)
            head == Min(Cardinality(cats), TopCategories)
            kept == {view[i].key : i \in 1..head}
            rest == {i \in 1..Len(data.rows) :
                        KeyOf(data.rows[i], <<"category">>) \in cats \ kept}
        IN  /\ Len(view) <= TopCategories + 1
            /\ Len(view) >= head
            /\ Len(view) > head =>
                  /\ Cardinality(cats) > TopCategories
                  /\ SumOver(data.rows, rest) # 0
                  /\ view[Len(view)] = Entry(<<Others>>, SumOver(data.rows, rest))
            /\ Cardinality(cats) <= TopCategories =>
                  /\ Keys(view) = cats
                  /\ Len(view) = Cardinality(cats)
                  /\ SumsMatch(view, data.rows, <<"category">>)

\* C9 witness: more than 8 categories, and "Others" was added as a ninth
\* entry with a non-zero value.
C9_Witness ==
    /\ Analysed
    /\ Len(views.top_categories) = TopCategories + 1
    /\ views.top_categories[TopCategories + 1].key = <<Others>>
    /\ views.top_categories[TopCategories + 1].val > 0

\* C10: the station totals view maps each of its stations to the sum of
\* crime_count of that station's rows; the yearly trend has exactly one entry
\* per distinct year, in ascending year order, with the year's sum; the
\* station locations view has exactly one row per distinct (station,
\* location_x, location_y) triple with the triple's sum; whatever the order
\* of the rows.  Distinct values are the values present: a row with a missing
\* key value belongs to no group.
C10_GroupedSums ==
    Analysed =>
        /\ SumsMatch(views.station_counts, data.rows, <<"station">>)
        /\ Len(views.station_counts)
               = Min(Cardinality(Distinct(data.rows, <<"station">>)), TopStations)
        /\ SumsMatch(views.yearly_trend, data.rows, <<"year">>)
        /\ Keys(views.yearly_trend) = Distinct(data.rows, <<"year">>)
        /\ KeysAscending(views.yearly_trend)
        /\ SumsMatch(views.station_locations, data.rows,
                     <<"station", "location_x", "location_y">>)
        /\ Keys(views.station_locations)
               = Distinct(data.rows, <<"station", "location_x", "location_y">>)
        /\ Len(views.station_locations) = Cardinality(Keys(views.station_locations))

\* C10 witness: the example (A at (1.0, 2.0), 5 in 2020 and 3 in 2021) gives
\* A -> 8, 2020 -> 5, 2021 -> 3 and (A, 1.0, 2.0) -> 8.
C10_Witness ==
    /\ Analysed
    /\ data.rows = ExampleTable
    /\ views.station_counts = <<Entry(<<1>>, 8)>>
    /\ views.yearly_trend = <<Entry(<<2020>>, 5), Entry(<<2021>>, 3)>>
    /\ views.station_locations = <<Entry(<<1, 1, 2>>, 8)>>

\* The texts of the two warnings.
DatasetNotFound == "Dataset not found. Please add crime_data.csv in the data folder."

NoDataAvailable == "No data available for analysis."

Warnings(o) == {o[i].body : i \in {j \in 1..Len(o) : o[j].kind = "warning"}}

\* The pages whose panels the run rendered.
PanelsOf(o) == {o[i].panel : i \in 1..Len(o)} \ {"sidebar", "footer"}

\* The "no data" placeholders of the Data Analysis panel.
Placeholders(o) == {i \in 1..Len(o) : o[i].panel = Pages[3] /\ o[i].kind = "info"}

\* A run has taken place and its read of the file failed (a read that
\* succeeds fills the memo in the same run).
ReadFailed == Len(out) > 0 /\ ~cache.hit

\* What a run renders for page p when the dataset is present.
WithDataset(p) == Sidebar \o Dispatch(p, Table(ExampleTable), shots, cow, stable).out \o Footer

\* C2: on a table that loaded with zero rows, the Data Analysis page computes
\* five empty views, shows a "no data" placeholder for each of its three
\* charts and raises no error.
C2_EmptyInput ==
    (Len(out) > 0 /\ page = Pages[3] /\ data.ok /\ Len(data.rows) = 0) =>
        /\ ~err
        /\ views.computed = ViewNames
        /\ Len(views.station_counts) = 0
        /\ Len(views.top_categories) = 0
        /\ Len(views.yearly_trend) = 0
        /\ Len(views.station_locations) = 0
        /\ Len(views.hotspot_data) = 0
        /\ Cardinality(Placeholders(out)) >= 3

\* C3 as stated: when reading the file fails no exception reaches the caller
\* and the table is None; then the Dataset Overview and the Data Analysis
\* pages both render the same "dataset not found" warning and run no
\* aggregation, and Home and About render as with the dataset present.
C3_DatasetAbsent ==
    ReadFailed =>
        /\ data = None
        /\ ~err
        /\ page \in {Pages[2], Pages[3]} =>
              Warnings(out) = {DatasetNotFound} /\ views = NoViews
        /\ page \in {Pages[1], Pages[5]} => out = WithDataset(page)

\* C3 as amended: as above, the Dataset Overview page rendering the warning
\* "Dataset not found. Please add crime_data.csv in the data folder." and the
\* Data Analysis page the warning "No data available for analysis.".
C3_Amended ==
    ReadFailed =>
        /\ data = None
        /\ ~err
        /\ page = Pages[2] => Warnings(out) = {DatasetNotFound} /\ views = NoViews
        /\ page = Pages[3] => Warnings(out) = {NoDataAvailable} /\ views = NoViews
        /\ page \in {Pages[1], Pages[5]} => out = WithDataset(page)

\* C3 witness: the read failed and the Data Analysis page shows its warning.
C3_Witness ==
    /\ ReadFailed
    /\ ~file.exists
    /\ page = Pages[3]
    /\ Warnings(out) = {NoDataAvailable}

\* C6 as stated: after the first load attempt no later step reads the file
\* again or changes the table the pages see.
C6_ReadOnce ==
    [][Len(out) > 0 => (reads' = reads /\ data' = data)]_vars

\* C6 as amended: once a read has succeeded, every later render obtains that
\* same table without reading the file again, whatever happens to the file;
\* a failed read is not kept, and every render before the first success
\* reads the file again.
C6_Amended ==
    [][/\ cache.hit =>
            /\ cache' = cache
            /\ reads' = reads
            /\ data' = data
            /\ data' = Table(cache.value)
       /\ (~cache.hit /\ file' = file /\ vars' # vars) => reads' = reads + 1]_vars

\* C6 witness: a read failed, a later one succeeded, the file has changed
\* since, and the page rendered last still shows the table read.
C6_Witness ==
    /\ cache.hit
    /\ reads > 1
    /\ file # [exists |-> TRUE, rows |-> cache.value]
    /\ Analysed
    /\ data = Table(cache.value)

\* The loaded table and the full category totals are what they were before
\* the "Others" step.
Intact ==
    /\ data = Table(cache.value)
    /\ Keys(views.category_counts) = Distinct(data.rows, <<"category">>)
    /\ SumsMatch(views.category_counts, data.rows, <<"category">>)

C8_PageDispatch ==
    [][Len(out') > 0 =>
          /\ PanelsOf(out') = {page'}
          /\ out'[Len(Sidebar) + 1] = El(page', "title", out'[Len(Sidebar) + 1].body)
          /\ (Len(out) > 0 /\ page' = page /\ data' = data) =>
                (out' = out /\ err' = err /\ views' = views)]_vars

\* C8 witness: after other pages, the Screenshots page has rendered two
\* images and nothing of another page.
C8_Witness ==
    /\ cache.hit
    /\ page = Pages[4]
    /\ PanelsOf(out) = {Pages[4]}
    /\ Cardinality({i \in 1..Len(out) : out[i].kind = "image"}) = 2

=============================================================================
